---- MODULE Spec2Model ----
(***************************************************************************)
(* Model of the minesweeper solver in solver.py.                           *)
(*                                                                         *)
(* The Solver object is the state: its grid shape, its knowledge array,    *)
(* its is_dirty array and its dirty_queue.  The mine field it plays        *)
(* against is the oracle: a fixed set of mines that answers a sweep with   *)
(* the number of neighbouring mines or with an explosion.                  *)
(*                                                                         *)
(* Methods that mutate the solver are operators from a solver record to a  *)
(* solver record, so that one method can call another the way the code     *)
(* does.  The loops of solve and process_queue are the actions: one action *)
(* per executed loop iteration.                                            *)
(***************************************************************************)
EXTENDS Integers, Sequences, FiniteSets, TLC

(***************************************************************************)
(* Bounds of the model.                                                    *)
(***************************************************************************)
Width == 3

Height == 2

NumberOfMines == 1

\* number of mark_dirty calls a client of the class makes on its own
MaxMarks == 1

(***************************************************************************)
(* Constants of solver.py.                                                 *)
(***************************************************************************)
CELL_FLAGGED == 100

CELL_UNKNOWN == 200

True == 1

False == 0

VARIABLES
    width,          \* self.width
    height,         \* self.height
    number_of_mines,\* self.number_of_mines
    mines,          \* the mine field's ground truth: the set of mined cells
    knowledge,      \* self.knowledge
    is_dirty,       \* self.is_dirty
    dirty_queue,    \* self.dirty_queue, a list used as a stack
    sweep_calls,    \* number of calls of mine_field.sweep_cell so far
    appends,        \* number of dirty_queue.append calls so far
    pc,             \* where the run is: "solve", "process_queue", or an outcome
    guess,          \* (guess_column, guess_row) of solve, <<-1, -1>> when none
    marks,          \* number of mark_dirty calls made by the client so far
    lifo_knowledge  \* the knowledge grid in which the loop of process_queue,
                    \* as coded, ends from the state in which it was entered

vars == <<width, height, number_of_mines, mines, knowledge, is_dirty,
          dirty_queue, sweep_calls, appends, pc, guess, marks, lifo_knowledge>>

(***************************************************************************)
(* Grid geometry.                                                          *)
(***************************************************************************)
is_in_bounds(column, row) ==
    (column >= 0) /\ (row >= 0) /\ (column < width) /\ (row < height)

Cells == {<<column, row>> : column \in 0..(width - 1), row \in 0..(height - 1)}

neighbours(column, row) ==
    LET neighbour_list ==
            << <<column + 1, row>>,
               <<column + 1, row - 1>>,
               <<column,     row - 1>>,
               <<column - 1, row - 1>>,
               <<column - 1, row>>,
               <<column - 1, row + 1>>,
               <<column,     row + 1>>,
               <<column + 1, row + 1>> >>
    IN  SelectSeq(neighbour_list,
                  LAMBDA coordinate : is_in_bounds(coordinate[1], coordinate[2]))

Range(s) == {s[i] : i \in 1..Len(s)}

(***************************************************************************)
(* The mine field (oracle).  sweep_cell answers with the number of mines   *)
(* among the in-bounds neighbours, or explodes on a mine.                  *)
(***************************************************************************)
Explosion == "ExplosionException"

sweep_cell(column, row) ==
    IF <<column, row>> \in mines
    THEN [raises |-> TRUE, value |-> -1]
    ELSE [raises |-> FALSE,
          value  |-> Cardinality(Range(neighbours(column, row)) \cap mines)]

(***************************************************************************)
(* The solver record that the methods transform.  status is "ok" while no  *)
(* exception is in flight; an exception stops every method it passes.      *)
(***************************************************************************)
AssertionError == "AssertionError"

Self ==
    [knowledge   |-> knowledge,
     is_dirty    |-> is_dirty,
     dirty_queue |-> dirty_queue,
     sweep_calls |-> sweep_calls,
     appends     |-> appends,
     status      |-> "ok"]

Raise(self, exception) == [self EXCEPT !.status = exception]

\* A call evaluates its arguments once, before the body runs.  The methods
\* below are written  Result({body : self \in {solver}, column \in {c}, ...}):
\* the arguments solver, c, r are evaluated once and the body reads their
\* values under the names the code uses.
Result(S) == CHOOSE result \in S : TRUE

\* count_neighbours with the bug of never counting a flagged neighbour
count_neighbours_without_flags(solver, c, r) ==
    Result({
        LET neighbour_list == neighbours(column, row)
            N_unknown_neighbours ==
                Cardinality({i \in 1..Len(neighbour_list) :
                                self.knowledge[neighbour_list[i]] = CELL_UNKNOWN})
        IN  <<N_unknown_neighbours, 0>>
        : self \in {solver}, column \in {c}, row \in {r}})

count_neighbours(solver, c, r) ==
    Result({
        LET neighbour_list == neighbours(column, row)
            N_unknown_neighbours ==
                Cardinality({i \in 1..Len(neighbour_list) :
                                self.knowledge[neighbour_list[i]] = CELL_UNKNOWN})
            N_found_neighbour_mines ==
                Cardinality({i \in 1..Len(neighbour_list) :
                                self.knowledge[neighbour_list[i]] = CELL_FLAGGED})
        IN  <<N_unknown_neighbours, N_found_neighbour_mines>>
        : self \in {solver}, column \in {c}, row \in {r}})

\* mark_dirty with the bug of appending to the worklist without setting the flag
mark_dirty_without_flag(solver, c, r) ==
    Result({
        IF self.status # "ok" THEN self
        ELSE IF ~is_in_bounds(column, row) THEN Raise(self, AssertionError)
        ELSE [self EXCEPT !.dirty_queue = Append(@, <<column, row>>),
                          !.appends = @ + 1]
        : self \in {solver}, column \in {c}, row \in {r}})

\* mark_dirty with the bug of a deduplication that returns at once, flag
\* untouched, when the worklist already holds the coordinate
mark_dirty_skipping_queued(solver, c, r) ==
    Result({
        IF self.status # "ok" THEN self
        ELSE IF ~is_in_bounds(column, row) THEN Raise(self, AssertionError)
        ELSE IF <<column, row>> \in Range(self.dirty_queue) THEN self
        ELSE [self EXCEPT !.is_dirty[<<column, row>>] = True,
                          !.dirty_queue = Append(@, <<column, row>>),
                          !.appends = @ + 1]
        : self \in {solver}, column \in {c}, row \in {r}})

\* mark_dirty with the bug of setting the flag without appending to the worklist
mark_dirty_flag_only(solver, c, r) ==
    Result({
        IF self.status # "ok" THEN self
        ELSE IF ~is_in_bounds(column, row) THEN Raise(self, AssertionError)
        ELSE [self EXCEPT !.is_dirty[<<column, row>>] = True]
        : self \in {solver}, column \in {c}, row \in {r}})

mark_dirty(solver, c, r) ==
    Result({
        IF self.status # "ok" THEN self
        ELSE IF ~is_in_bounds(column, row) THEN Raise(self, AssertionError)
        ELSE [self EXCEPT !.is_dirty[<<column, row>>] = True,
                          !.dirty_queue = Append(@, <<column, row>>),
                          !.appends = @ + 1]
        : self \in {solver}, column \in {c}, row \in {r}})

\* the loop of mark_neighbourhood_dirty, from its i-th neighbour on
RECURSIVE mark_dirty_each(_, _, _)
mark_dirty_each(solver, list, index) ==
    Result({
        IF i > Len(neighbour_list) THEN self
        ELSE mark_dirty_each(
                 mark_dirty(self, neighbour_list[i][1], neighbour_list[i][2]),
                 neighbour_list, i + 1)
        : self \in {solver}, neighbour_list \in {list}, i \in {index}})

\* mark_neighbourhood_dirty with the bug of marking the cell alone
mark_neighbourhood_dirty_cell_only(solver, c, r) ==
    Result({
        IF self.status # "ok" THEN self
        ELSE IF ~is_in_bounds(column, row) THEN Raise(self, AssertionError)
        ELSE mark_dirty(self, column, row)
        : self \in {solver}, column \in {c}, row \in {r}})

mark_neighbourhood_dirty(solver, c, r) ==
    Result({
        IF self.status # "ok" THEN self
        ELSE IF ~is_in_bounds(column, row) THEN Raise(self, AssertionError)
        ELSE mark_dirty_each(mark_dirty(self, column, row),
                             neighbours(column, row), 1)
        : self \in {solver}, column \in {c}, row \in {r}})

\* sweep_unknown_cell with the bug of marking the neighbourhood dirty before
\* the sweep instead of after it
sweep_unknown_cell_marking_first(solver, c, r) ==
    Result({
        IF self.status # "ok" THEN self
        ELSE IF ~is_in_bounds(column, row) THEN Raise(self, AssertionError)
        ELSE IF self.knowledge[<<column, row>>] # CELL_UNKNOWN
        THEN Raise(self, AssertionError)
        ELSE LET answer == sweep_cell(column, row)
                 marked == mark_neighbourhood_dirty(self, column, row)
                 called == [marked EXCEPT !.sweep_calls = @ + 1]
             IN  IF answer.raises
                 THEN Raise(called, Explosion)
                 ELSE [called EXCEPT !.knowledge[<<column, row>>] = answer.value]
        : self \in {solver}, column \in {c}, row \in {r}})

sweep_unknown_cell(solver, c, r) ==
    Result({
        IF self.status # "ok" THEN self
        ELSE IF ~is_in_bounds(column, row) THEN Raise(self, AssertionError)
        ELSE IF self.knowledge[<<column, row>>] # CELL_UNKNOWN
        THEN Raise(self, AssertionError)
        ELSE LET answer == sweep_cell(column, row)
                 called == [self EXCEPT !.sweep_calls = @ + 1]
             IN  IF answer.raises
                 THEN Raise(called, Explosion)
                 ELSE mark_neighbourhood_dirty(
                          [called EXCEPT !.knowledge[<<column, row>>] = answer.value],
                          column, row)
        : self \in {solver}, column \in {c}, row \in {r}})

\* flag_unknown_cell with the bug of writing knowledge[row, column]
flag_unknown_cell_transposed(solver, c, r) ==
    Result({
        IF self.status # "ok" THEN self
        ELSE IF ~is_in_bounds(column, row) THEN Raise(self, AssertionError)
        ELSE IF self.knowledge[<<column, row>>] # CELL_UNKNOWN
        THEN Raise(self, AssertionError)
        ELSE IF ~is_in_bounds(row, column) THEN Raise(self, "IndexError")
        ELSE mark_neighbourhood_dirty(
                 [self EXCEPT !.knowledge[<<row, column>>] = CELL_FLAGGED],
                 column, row)
        : self \in {solver}, column \in {c}, row \in {r}})

flag_unknown_cell(solver, c, r) ==
    Result({
        IF self.status # "ok" THEN self
        ELSE IF ~is_in_bounds(column, row) THEN Raise(self, AssertionError)
        ELSE IF self.knowledge[<<column, row>>] # CELL_UNKNOWN
        THEN Raise(self, AssertionError)
        ELSE mark_neighbourhood_dirty(
                 [self EXCEPT !.knowledge[<<column, row>>] = CELL_FLAGGED],
                 column, row)
        : self \in {solver}, column \in {c}, row \in {r}})

\* the loop of sweep_unknown_neighbours, from its i-th neighbour on
\* the loop of sweep_unknown_neighbours with the bug of sweeping every
\* neighbour, whatever is known of it
RECURSIVE sweep_each_unfiltered(_, _, _)
sweep_each_unfiltered(solver, list, index) ==
    Result({
        IF i > Len(neighbour_list) \/ self.status # "ok" THEN self
        ELSE sweep_each_unfiltered(
                 sweep_unknown_cell(self, neighbour_list[i][1],
                                    neighbour_list[i][2]),
                 neighbour_list, i + 1)
        : self \in {solver}, neighbour_list \in {list}, i \in {index}})

RECURSIVE sweep_each_unknown(_, _, _)
sweep_each_unknown(solver, list, index) ==
    Result({
        IF i > Len(neighbour_list) \/ self.status # "ok" THEN self
        ELSE sweep_each_unknown(
                 IF self.knowledge[neighbour_list[i]] = CELL_UNKNOWN
                 THEN sweep_unknown_cell(self, neighbour_list[i][1],
                                         neighbour_list[i][2])
                 ELSE self,
                 neighbour_list, i + 1)
        : self \in {solver}, neighbour_list \in {list}, i \in {index}})

\* the loop of flag_unknown_neighbours, from its i-th neighbour on
RECURSIVE flag_each_unknown(_, _, _)
flag_each_unknown(solver, list, index) ==
    Result({
        IF i > Len(neighbour_list) \/ self.status # "ok" THEN self
        ELSE flag_each_unknown(
                 IF self.knowledge[neighbour_list[i]] = CELL_UNKNOWN
                 THEN flag_unknown_cell(self, neighbour_list[i][1],
                                        neighbour_list[i][2])
                 ELSE self,
                 neighbour_list, i + 1)
        : self \in {solver}, neighbour_list \in {list}, i \in {index}})

\* sweep_unknown_neighbours with the bug of flagging the unknown neighbours,
\* as its twin flag_unknown_neighbours does
sweep_unknown_neighbours_flagging(solver, c, r) ==
    Result({
        IF self.status # "ok" THEN self
        ELSE IF ~is_in_bounds(column, row) THEN Raise(self, AssertionError)
        ELSE flag_each_unknown(self, neighbours(column, row), 1)
        : self \in {solver}, column \in {c}, row \in {r}})

sweep_unknown_neighbours(solver, c, r) ==
    Result({
        IF self.status # "ok" THEN self
        ELSE IF ~is_in_bounds(column, row) THEN Raise(self, AssertionError)
        ELSE sweep_each_unknown(self, neighbours(column, row), 1)
        : self \in {solver}, column \in {c}, row \in {r}})

\* flag_unknown_neighbours with the bug of sweeping the unknown neighbours, as
\* its twin sweep_unknown_neighbours does and as its docstring says
flag_unknown_neighbours_sweeping(solver, c, r) ==
    Result({
        IF self.status # "ok" THEN self
        ELSE IF ~is_in_bounds(column, row) THEN Raise(self, AssertionError)
        ELSE sweep_each_unknown(self, neighbours(column, row), 1)
        : self \in {solver}, column \in {c}, row \in {r}})

flag_unknown_neighbours(solver, c, r) ==
    Result({
        IF self.status # "ok" THEN self
        ELSE IF ~is_in_bounds(column, row) THEN Raise(self, AssertionError)
        ELSE flag_each_unknown(self, neighbours(column, row), 1)
        : self \in {solver}, column \in {c}, row \in {r}})

\* infer with the bug of not subtracting the mines already found
infer_without_subtraction(solver, c, r) ==
    Result({
        LET current_cell_knowledge == self.knowledge[<<column, row>>]
            counts == count_neighbours(self, column, row)
            N_neighbour_mines == current_cell_knowledge
            N_unknown_neighbours == counts[1]
            N_hidden_mines == N_neighbour_mines
        IN  IF current_cell_knowledge = CELL_FLAGGED THEN self
            ELSE IF current_cell_knowledge = CELL_UNKNOWN THEN self
            ELSE IF 0 <= current_cell_knowledge /\ current_cell_knowledge <= 8
            THEN IF N_hidden_mines = 0
                 THEN sweep_unknown_neighbours(self, column, row)
                 ELSE IF N_hidden_mines < N_unknown_neighbours
                 THEN self
                 ELSE IF N_hidden_mines = N_unknown_neighbours
                 THEN flag_unknown_neighbours(self, column, row)
                 ELSE Raise(self, AssertionError)
            ELSE self
        : self \in {solver}, column \in {c}, row \in {r}})

\* infer with the bug of testing 0 < current_cell_knowledge <= 8: a revealed 0
\* is taken for an invalid value and nothing is inferred from it
infer_ignoring_zero(solver, c, r) ==
    Result({
        LET current_cell_knowledge == self.knowledge[<<column, row>>]
            counts == count_neighbours(self, column, row)
            N_neighbour_mines == current_cell_knowledge
            N_unknown_neighbours == counts[1]
            N_found_neighbour_mines == counts[2]
            N_hidden_mines == N_neighbour_mines - N_found_neighbour_mines
        IN  IF current_cell_knowledge = CELL_FLAGGED THEN self
            ELSE IF current_cell_knowledge = CELL_UNKNOWN THEN self
            ELSE IF 0 < current_cell_knowledge /\ current_cell_knowledge <= 8
            THEN IF N_hidden_mines = 0
                 THEN sweep_unknown_neighbours(self, column, row)
                 ELSE IF N_hidden_mines < N_unknown_neighbours
                 THEN self
                 ELSE IF N_hidden_mines = N_unknown_neighbours
                 THEN flag_unknown_neighbours(self, column, row)
                 ELSE Raise(self, AssertionError)
            ELSE self
        : self \in {solver}, column \in {c}, row \in {r}})

\* the inference of check_cell for a dirty cell (the if / elif chain)
infer(solver, c, r) ==
    Result({
        LET current_cell_knowledge == self.knowledge[<<column, row>>]
            counts == count_neighbours(self, column, row)
            N_neighbour_mines == current_cell_knowledge
            N_unknown_neighbours == counts[1]
            N_found_neighbour_mines == counts[2]
            N_hidden_mines == N_neighbour_mines - N_found_neighbour_mines
        IN  IF current_cell_knowledge = CELL_FLAGGED THEN self
            ELSE IF current_cell_knowledge = CELL_UNKNOWN THEN self
            ELSE IF 0 <= current_cell_knowledge /\ current_cell_knowledge <= 8
            THEN IF N_hidden_mines = 0
                 THEN sweep_unknown_neighbours(self, column, row)
                 ELSE IF N_hidden_mines < N_unknown_neighbours
                 THEN self
                 ELSE IF N_hidden_mines = N_unknown_neighbours
                 THEN flag_unknown_neighbours(self, column, row)
                 ELSE Raise(self, AssertionError)
            ELSE self
        : self \in {solver}, column \in {c}, row \in {r}})

\* clear_dirty with the bug of putting the cell back at the front of the
\* worklist (dirty_queue.insert(0, ...)), flag still set, instead of clearing it
clear_dirty_requeueing(solver, c, r) ==
    Result({
        IF self.status # "ok" THEN self
        ELSE [self EXCEPT !.is_dirty[<<column, row>>] = True,
                          !.dirty_queue = <<(<<column, row>>)>> \o @]
        : self \in {solver}, column \in {c}, row \in {r}})

\* the last statement of check_cell
\* the last statement of check_cell with the bug of leaving the flag set
clear_dirty_forgotten(solver, c, r) ==
    Result({
        self
        : self \in {solver}, column \in {c}, row \in {r}})

clear_dirty(solver, c, r) ==
    Result({
        IF self.status # "ok" THEN self
        ELSE [self EXCEPT !.is_dirty[<<column, row>>] = False]
        : self \in {solver}, column \in {c}, row \in {r}})

\* check_cell with the bug of returning at once, before the flag is cleared,
\* for a cell that is flagged or unknown
check_cell_returning_early(solver, c, r) ==
    Result({
        IF self.status # "ok" THEN self
        ELSE IF ~is_in_bounds(column, row) THEN Raise(self, AssertionError)
        ELSE IF self.is_dirty[<<column, row>>] = False THEN self
        ELSE IF self.knowledge[<<column, row>>] \in {CELL_FLAGGED, CELL_UNKNOWN}
        THEN self
        ELSE clear_dirty(infer(self, column, row), column, row)
        : self \in {solver}, column \in {c}, row \in {r}})

\* check_cell with the bug of reading and clearing is_dirty[row, column]
check_cell_transposed(solver, c, r) ==
    Result({
        IF self.status # "ok" THEN self
        ELSE IF ~is_in_bounds(column, row) THEN Raise(self, AssertionError)
        ELSE IF ~is_in_bounds(row, column) THEN Raise(self, "IndexError")
        ELSE IF self.is_dirty[<<row, column>>] = False THEN self
        ELSE clear_dirty(infer(self, column, row), row, column)
        : self \in {solver}, column \in {c}, row \in {r}})

check_cell(solver, c, r) ==
    Result({
        IF self.status # "ok" THEN self
        ELSE IF ~is_in_bounds(column, row) THEN Raise(self, AssertionError)
        ELSE IF self.is_dirty[<<column, row>>] = False THEN self
        ELSE clear_dirty(infer(self, column, row), column, row)
        : self \in {solver}, column \in {c}, row \in {r}})

\* the loop of process_queue run to its end on a solver record: the last entry
\* is popped and checked until the worklist is empty or an exception leaves
\* the loop
RECURSIVE process_queue_loop(_)
process_queue_loop(solver) ==
    Result({
        IF self.status # "ok" \/ Len(self.dirty_queue) = 0 THEN self
        ELSE process_queue_loop(
                 check_cell([self EXCEPT !.dirty_queue = SubSeq(@, 1, Len(@) - 1)],
                            self.dirty_queue[Len(self.dirty_queue)][1],
                            self.dirty_queue[Len(self.dirty_queue)][2]))
        : self \in {solver}})

\* the possible results of sample_random_unknown
sample_random_unknown ==
    LET unknown_list == {cell \in Cells : knowledge[cell] = CELL_UNKNOWN}
    IN  IF unknown_list = {}
        THEN {<<FALSE, -1, -1>>}
        ELSE {<<TRUE, cell[1], cell[2]>> : cell \in unknown_list}

(***************************************************************************)
(* Initial state: Solver.__init__.                                         *)
(***************************************************************************)
Init ==
    /\ width = Width
    /\ height = Height
    /\ number_of_mines = NumberOfMines
    /\ mines \in {m \in SUBSET {<<column, row>> : column \in 0..(Width - 1),
                                                  row \in 0..(Height - 1)} :
                    Cardinality(m) = NumberOfMines}
    /\ knowledge = [cell \in {<<column, row>> : column \in 0..(Width - 1),
                                                row \in 0..(Height - 1)}
                        |-> CELL_UNKNOWN]
    /\ is_dirty = [cell \in {<<column, row>> : column \in 0..(Width - 1),
                                               row \in 0..(Height - 1)}
                        |-> False]
    /\ dirty_queue = <<>>
    /\ sweep_calls = 0
    /\ appends = 0
    /\ pc = "solve"
    /\ guess = <<-1, -1>>
    /\ marks = 0
    /\ lifo_knowledge = knowledge

(***************************************************************************)
(* Actions.                                                                *)
(***************************************************************************)
Store(self) ==
    /\ knowledge' = self.knowledge
    /\ is_dirty' = self.is_dirty
    /\ dirty_queue' = self.dirty_queue
    /\ sweep_calls' = self.sweep_calls
    /\ appends' = self.appends

\* SolveGuess with the bug of catching the explosion without returning: the
\* iteration goes on to process_queue
SolveGuess_without_return ==
    /\ pc = "solve"
    /\ \E sample \in sample_random_unknown :
          /\ sample[1] = TRUE
          /\ \E after \in {sweep_unknown_cell(Self, sample[2], sample[3])} :
                 /\ Store(after)
                 /\ guess' = <<sample[2], sample[3]>>
                 /\ pc' = IF after.status = AssertionError THEN "assert_failed"
                          ELSE "process_queue"
    /\ UNCHANGED <<width, height, number_of_mines, mines, marks, lifo_knowledge>>

\* one iteration of the loop of solve that finds an unknown cell and sweeps it
SolveGuess ==
    /\ pc = "solve"
    /\ \E sample \in sample_random_unknown :
          /\ sample[1] = TRUE
          /\ \E after \in {sweep_unknown_cell(Self, sample[2], sample[3])} :
                 /\ Store(after)
                 /\ guess' = <<sample[2], sample[3]>>
                 /\ pc' = IF after.status = Explosion THEN "lost"
                          ELSE IF after.status = AssertionError THEN "assert_failed"
                          ELSE "process_queue"
    /\ UNCHANGED <<width, height, number_of_mines, mines, marks, lifo_knowledge>>

\* the iteration of the loop of solve that finds no unknown cell
SolveFinished ==
    /\ pc = "solve"
    /\ <<FALSE, -1, -1>> \in sample_random_unknown
    /\ guess' = <<-1, -1>>
    /\ pc' = "solved"
    /\ UNCHANGED <<width, height, number_of_mines, mines, knowledge, is_dirty,
                   dirty_queue, sweep_calls, appends, marks, lifo_knowledge>>

\* one iteration of the loop of process_queue: pop a cell and check it
ProcessQueueStep ==
    /\ pc = "process_queue"
    /\ Len(dirty_queue) > 0
    /\ \E cell \in {dirty_queue[Len(dirty_queue)]} :
       \E popped \in {[Self EXCEPT !.dirty_queue = SubSeq(@, 1, Len(@) - 1)]} :
       \E after \in {check_cell(popped, cell[1], cell[2])} :
           /\ Store(after)
           /\ pc' = IF after.status = Explosion THEN "exploded"
                    ELSE IF after.status = AssertionError THEN "assert_failed"
                    ELSE "process_queue"
    /\ UNCHANGED <<width, height, number_of_mines, mines, guess, marks,
                   lifo_knowledge>>

\* the loop of process_queue ends and the is_dirty array is summed; control is
\* back at the head of the loop of solve, where the guess of the iteration
\* that ends is dead
ProcessQueueReturn ==
    /\ pc = "process_queue"
    /\ Len(dirty_queue) = 0
    /\ LET total == Cardinality({cell \in Cells : is_dirty[cell] # False})
       IN  pc' = IF total # 0 THEN "assert_failed" ELSE "solve"
    /\ guess' = <<-1, -1>>
    /\ UNCHANGED <<width, height, number_of_mines, mines, knowledge, is_dirty,
                   dirty_queue, sweep_calls, appends, marks, lifo_knowledge>>

Next ==
    \/ SolveGuess
    \/ SolveFinished
    \/ ProcessQueueStep
    \/ ProcessQueueReturn

Spec == Init /\ [][Next]_vars

FairSpec == Spec /\ WF_vars(Next)

(***************************************************************************)
(* A client of the class other than solve: it may call mark_dirty on any   *)
(* cell and process_queue at any time between two iterations of solve, so  *)
(* that process_queue starts from worklists that solve alone never builds  *)
(* (entries in any order, duplicates, entries of cells nobody touched).    *)
(***************************************************************************)
ClientMarkDirty ==
    /\ pc = "solve"
    /\ marks < MaxMarks
    /\ \E cell \in Cells :
          \E after \in {mark_dirty(Self, cell[1], cell[2])} :
              Store(after)
    /\ marks' = marks + 1
    /\ UNCHANGED <<width, height, number_of_mines, mines, pc, guess, lifo_knowledge>>

ClientProcessQueue ==
    /\ pc = "solve"
    /\ pc' = "process_queue"
    /\ UNCHANGED <<width, height, number_of_mines, mines, knowledge, is_dirty,
                   dirty_queue, sweep_calls, appends, guess, marks, lifo_knowledge>>

ApiNext ==
    \/ SolveGuess
    \/ SolveFinished
    \/ ProcessQueueStep
    \/ ProcessQueueReturn
    \/ ClientMarkDirty
    \/ ClientProcessQueue

ApiSpec == Init /\ [][ApiNext]_vars

\* process_queue is a loop of one thread: once entered it keeps running
FairApiSpec == ApiSpec /\ WF_vars(ProcessQueueStep \/ ProcessQueueReturn)

(***************************************************************************)
(* A client that also flags on its own: flag_unknown_cell is a method of   *)
(* the class and accepts any in-bounds unknown cell, mined or not.  A flag *)
(* on a mine-free cell makes the knowledge grid disagree with the mine     *)
(* field, which is the situation the contract checks of check_cell are     *)
(* written for.                                                            *)
(***************************************************************************)
ClientFlagUnknownCell ==
    /\ pc = "solve"
    /\ \E cell \in {c \in Cells : knowledge[c] = CELL_UNKNOWN} :
          \E after \in {flag_unknown_cell(Self, cell[1], cell[2])} :
              Store(after)
    /\ UNCHANGED <<width, height, number_of_mines, mines, pc, guess, marks,
                   lifo_knowledge>>

ContractNext ==
    \/ SolveGuess
    \/ SolveFinished
    \/ ProcessQueueStep
    \/ ProcessQueueReturn
    \/ ClientFlagUnknownCell

ContractSpec == Init /\ [][ContractNext]_vars

(***************************************************************************)
(* solve on a 5 x 5 grid without mines: Solver(5, 5, 0).  The mine field   *)
(* then answers 0 for every cell.                                          *)
(***************************************************************************)
ZeroInit ==
    /\ width = 5
    /\ height = 5
    /\ number_of_mines = 0
    /\ mines = {}
    /\ knowledge = [cell \in {<<column, row>> : column \in 0..4, row \in 0..4}
                        |-> CELL_UNKNOWN]
    /\ is_dirty = [cell \in {<<column, row>> : column \in 0..4, row \in 0..4}
                        |-> False]
    /\ dirty_queue = <<>>
    /\ sweep_calls = 0
    /\ appends = 0
    /\ pc = "solve"
    /\ guess = <<-1, -1>>
    /\ marks = 0
    /\ lifo_knowledge = knowledge

ZeroSpec == ZeroInit /\ [][Next]_vars

FairZeroSpec == ZeroSpec /\ WF_vars(Next)

(***************************************************************************)
(* solve on a 3 x 3 grid whose single mine lies at (2, 2).                 *)
(***************************************************************************)
CornerInit ==
    /\ width = 3
    /\ height = 3
    /\ number_of_mines = 1
    /\ mines = {<<2, 2>>}
    /\ knowledge = [cell \in {<<column, row>> : column \in 0..2, row \in 0..2}
                        |-> CELL_UNKNOWN]
    /\ is_dirty = [cell \in {<<column, row>> : column \in 0..2, row \in 0..2}
                        |-> False]
    /\ dirty_queue = <<>>
    /\ sweep_calls = 0
    /\ appends = 0
    /\ pc = "solve"
    /\ guess = <<-1, -1>>
    /\ marks = 0
    /\ lifo_knowledge = knowledge

CornerSpec == CornerInit /\ [][Next]_vars

(***************************************************************************)
(* solve with a process_queue that is free in the entry it takes next: the *)
(* last (pop(), the code), the first (pop(0), FIFO) or any other (pop(i)). *)
(*                                                                         *)
(* The first two keep the worklist as the list it is.  For the third, the  *)
(* order of the entries that stay is immaterial, and so is an entry whose  *)
(* check returns at once: an entry of a cell whose flag is FALSE, and      *)
(* every further entry of a cell, since the first one taken clears the     *)
(* flag.  After a step that takes any entry the worklist is therefore      *)
(* reduced to the cells that are pending, one entry for each cell that has *)
(* an entry and a flag that is TRUE, in row-major order.                   *)
(***************************************************************************)
Pending(self) ==
    LET live   == SelectSeq(self.dirty_queue,
                            LAMBDA cell : self.is_dirty[cell] = True)
        sorted == SortSeq(live, LAMBDA a, b :
                                    a[2] * width + a[1] < b[2] * width + b[1])
    IN  SelectSeq([i \in 1..Len(sorted) |->
                      IF i > 1 /\ sorted[i] = sorted[i - 1]
                      THEN <<-1, -1>> ELSE sorted[i]],
                  LAMBDA cell : cell # <<-1, -1>>)

ProcessQueueStepFifo ==
    /\ pc = "process_queue"
    /\ Len(dirty_queue) > 0
    /\ \E cell \in {dirty_queue[1]} :
       \E popped \in {[Self EXCEPT !.dirty_queue = Tail(@)]} :
       \E after \in {check_cell(popped, cell[1], cell[2])} :
           /\ Store(after)
           /\ pc' = IF after.status = Explosion THEN "exploded"
                    ELSE IF after.status = AssertionError THEN "assert_failed"
                    ELSE "process_queue"
    /\ UNCHANGED <<width, height, number_of_mines, mines, guess, marks,
                   lifo_knowledge>>

ProcessQueueStepAnyEntry ==
    /\ pc = "process_queue"
    /\ Len(dirty_queue) > 0
    /\ \E cell \in Range(dirty_queue) :
       \E i \in {CHOOSE index \in 1..Len(dirty_queue) : dirty_queue[index] = cell} :
       \E popped \in {[Self EXCEPT !.dirty_queue =
                           SubSeq(@, 1, i - 1) \o SubSeq(@, i + 1, Len(@))]} :
       \E checked \in {check_cell(popped, cell[1], cell[2])} :
       \E after \in {[checked EXCEPT !.dirty_queue = Pending(checked)]} :
           /\ Store(after)
           /\ pc' = IF after.status = Explosion THEN "exploded"
                    ELSE IF after.status = AssertionError THEN "assert_failed"
                    ELSE "process_queue"
    /\ UNCHANGED <<width, height, number_of_mines, mines, guess, marks,
                   lifo_knowledge>>

\* SolveGuess, which also notes the grid in which the loop of process_queue, as
\* coded, ends from the state in which this iteration enters it
SolveGuessNotingResult ==
    /\ pc = "solve"
    /\ \E sample \in sample_random_unknown :
          /\ sample[1] = TRUE
          /\ \E after \in {sweep_unknown_cell(Self, sample[2], sample[3])} :
                 /\ Store(after)
                 /\ guess' = <<sample[2], sample[3]>>
                 /\ pc' = IF after.status = Explosion THEN "lost"
                          ELSE IF after.status = AssertionError THEN "assert_failed"
                          ELSE "process_queue"
                 /\ lifo_knowledge' = process_queue_loop(after).knowledge
    /\ UNCHANGED <<width, height, number_of_mines, mines, marks>>

AnyOrderNext ==
    \/ SolveGuessNotingResult
    \/ SolveFinished
    \/ ProcessQueueStep
    \/ ProcessQueueStepFifo
    \/ ProcessQueueStepAnyEntry
    \/ ProcessQueueReturn

AnyOrderSpec == CornerInit /\ [][AnyOrderNext]_vars

(***************************************************************************)
(* Vocabulary of the properties.                                           *)
(***************************************************************************)
IsRevealed(cell) == 0 <= knowledge[cell] /\ knowledge[cell] <= 8

Flagged == {cell \in Cells : knowledge[cell] = CELL_FLAGGED}

Unknown == {cell \in Cells : knowledge[cell] = CELL_UNKNOWN}

Revealed == {cell \in Cells : IsRevealed(cell)}

Neighbourhood(cell) == Range(neighbours(cell[1], cell[2]))

UnknownAround(cell) == Cardinality(Neighbourhood(cell) \cap Unknown)

FlaggedAround(cell) == Cardinality(Neighbourhood(cell) \cap Flagged)

AllClean == \A cell \in Cells : is_dirty[cell] = False

\* no revealed cell allows a deduction: none has unknown neighbours that are
\* all safe or all mines
NoDeductionLeft ==
    \A cell \in Revealed :
        \/ UnknownAround(cell) = 0
        \/ /\ 0 < knowledge[cell] - FlaggedAround(cell)
           /\ knowledge[cell] - FlaggedAround(cell) < UnknownAround(cell)

\* during this call of process_queue a cell other than the guess was swept or
\* flagged: the worklist holds a cell that the sweep of the guess did not mark
DeducedInThisCall ==
    /\ pc = "process_queue"
    /\ marks = 0
    /\ guess # <<-1, -1>>
    /\ \E i \in 1..Len(dirty_queue) :
          dirty_queue[i] \notin ({guess} \cup Neighbourhood(guess))

(***************************************************************************)
(* Properties.                                                             *)
(***************************************************************************)

\* C1: with a mine field that answers truthfully, every flagged cell is a mine
\* and no sweep made from inside check_cell / process_queue explodes: the run
\* is never ended by an explosion that escapes process_queue.
C1_FlagsAreMinesAndDeductionsSafe ==
    /\ Flagged \subseteq mines
    /\ pc # "exploded"
    /\ pc = "lost" => guess \in mines

\* a cell has been flagged while, in the same call of process_queue, cells
\* were swept or flagged by deduction
C1_Witness ==
    /\ DeducedInThisCall
    /\ Flagged # {}
    /\ sweep_calls >= 3

\* C2: when process_queue has returned, every revealed cell either has no
\* unknown neighbour left or has 0 < n - flagged < unknown; no deduction is
\* left half applied.
C2_NoDeductionLeftAfterDrain ==
    pc \in {"solve", "solved"} => NoDeductionLeft

\* process_queue has returned; one revealed cell is stuck with
\* 0 < n - flagged < unknown, another (a 0) had all its neighbours swept
C2_Witness ==
    /\ pc = "solve"
    /\ \E cell \in Revealed : UnknownAround(cell) > 0
    /\ \E cell \in Revealed : knowledge[cell] = 0 /\ UnknownAround(cell) = 0

\* C3: whenever the loop of process_queue ends (the worklist is empty), every
\* is_dirty entry is FALSE, so the step taken is the return and not the
\* failing assertion, whatever was marked and in which order.
C3_DrainLeavesNothingDirty ==
    [][(pc = "process_queue" /\ Len(dirty_queue) = 0)
          => (pc' = "solve" /\ dirty_queue' = <<>>
              /\ \A cell \in Cells : is_dirty'[cell] = False)]_vars

\* process_queue has returned from a worklist that held a mark of the client
\* besides those of sweeps and flags
C3_Witness ==
    /\ pc = "solve"
    /\ marks > 0
    /\ dirty_queue = <<>>
    /\ AllClean
    /\ Flagged # {}
    /\ Revealed # {}

\* C4: a cell that is Revealed or Flagged keeps its knowledge value in every
\* step; the only changes are Hidden -> Revealed(n) and Hidden -> Flagged.
C4_KnowledgeIsMonotonic ==
    [][\A cell \in Cells :
          knowledge[cell] # CELL_UNKNOWN => knowledge'[cell] = knowledge[cell]]_vars

\* deductions run in a grid that holds Revealed and Flagged cells
C4_Witness ==
    /\ DeducedInThisCall
    /\ Flagged # {}
    /\ Revealed # {}
    /\ Unknown # {}

\* C5: process_queue terminates: from every state inside its loop, whatever
\* the worklist holds, the loop is eventually left.
C5_DrainTerminates ==
    (pc = "process_queue") ~> (pc # "process_queue")

\* the loop runs on a worklist with a mark of the client and duplicate entries
C5_Witness ==
    /\ pc = "process_queue"
    /\ marks > 0
    /\ Revealed # {}
    /\ \E i, j \in 1..Len(dirty_queue) : i < j /\ dirty_queue[i] = dirty_queue[j]

\* C6: whenever solve is about to pick a random unknown cell, the worklist is
\* empty, no cell is dirty and no revealed cell allows a deduction.
C6_GuessOnlyWhenStuck ==
    (pc = "solve" /\ Unknown # {}) =>
        (dirty_queue = <<>> /\ AllClean /\ NoDeductionLeft)

\* solve guesses again after process_queue made deductions and got stuck
C6_Witness ==
    /\ pc = "solve"
    /\ Unknown # {}
    /\ sweep_calls >= 3
    /\ \E cell \in Revealed : knowledge[cell] = 0
    /\ \E cell \in Revealed : knowledge[cell] > 0 /\ UnknownAround(cell) > 1

C7_Outcome ==
    /\ pc \in {"solve", "process_queue", "solved", "lost"}
    /\ pc = "solved" => Unknown = {}
    /\ pc = "lost" => (guess \in mines /\ Unknown # {})
    /\ (pc = "process_queue" /\ guess # <<-1, -1>>) => guess \notin mines

C7_Progress ==
    pc = "solve" =>
        \/ pc' = "solve"
        \/ pc' = "solved" /\ Unknown = {}
        \/ pc' = "lost" /\ guess' \in mines
        \/ pc' = "process_queue" /\ Cardinality(Unknown') < Cardinality(Unknown)

\* C7: every run of solve ends, Solved or Lost: Solved only when no unknown
\* cell remains, Lost only when the guessed cell is a mine; an iteration of
\* the loop of solve either resolves an unknown cell or ends the run.
C7_SolveEndsSolvedOrLost ==
    /\ []C7_Outcome
    /\ [][C7_Progress]_vars
    /\ <>(pc \in {"solved", "lost"})

\* a run that ended Solved after flags were deduced
C7_Witness ==
    /\ pc = "solved"
    /\ Flagged # {}
    /\ Revealed # {}

\* C8: a guess that hits a mine ends the run at once and changes neither the
\* knowledge grid (the guessed cell stays unknown), nor the dirty flags, nor
\* the worklist; nothing runs after it.
C8_LostGuessChangesNothing ==
    [][/\ (pc = "solve" /\ pc' = "lost") =>
            /\ knowledge' = knowledge
            /\ is_dirty' = is_dirty
            /\ dirty_queue' = dirty_queue
            /\ knowledge'[guess'] = CELL_UNKNOWN
       /\ pc = "lost" => UNCHANGED vars]_vars

\* a run lost after earlier guesses and deductions succeeded
C8_Witness ==
    /\ pc = "lost"
    /\ guess \in mines
    /\ Cardinality(Revealed) >= 2

\* C9: the number of flagged cells never exceeds number_of_mines.
C9_FlagCountBound ==
    Cardinality(Flagged) <= number_of_mines

\* every mine has been flagged: the bound is met
C9_Witness ==
    /\ Cardinality(Flagged) = number_of_mines
    /\ number_of_mines > 0

\* C10: check_cell on a cell whose is_dirty entry is FALSE changes nothing:
\* knowledge, is_dirty, the worklist and the number of sweeps asked of the mine
\* field stay as they are, and nothing is raised.
C10_CheckOfCleanCellIsNoOp ==
    \A cell \in Cells :
        is_dirty[cell] = False => check_cell(Self, cell[1], cell[2]) = Self

\* process_queue is about to pop a stale entry: a revealed cell that is clean
C10_Witness ==
    /\ pc = "process_queue"
    /\ Len(dirty_queue) > 0
    /\ is_dirty[dirty_queue[Len(dirty_queue)]] = False
    /\ IsRevealed(dirty_queue[Len(dirty_queue)])

\* the cell that the next iteration of the loop of process_queue pops
NextPopped == dirty_queue[Len(dirty_queue)]

\* C11: when check_cell evaluates a dirty Revealed(n) cell whose
\* hidden_mines = n - flagged neighbours is negative or larger than the number
\* of hidden neighbours, the call ends in a failed assertion; it never returns
\* normally.
C11_OutOfRangeIsFatal ==
    [][(/\ pc = "process_queue"
        /\ Len(dirty_queue) > 0
        /\ is_dirty[NextPopped] = True
        /\ IsRevealed(NextPopped)
        /\ \/ knowledge[NextPopped] - FlaggedAround(NextPopped) < 0
           \/ knowledge[NextPopped] - FlaggedAround(NextPopped)
                  > UnknownAround(NextPopped))
          => pc' = "assert_failed"]_vars

\* C12 as stated: between operations a coordinate occurs in dirty_queue if and
\* only if its is_dirty flag is TRUE.
C12_QueuedIffDirty ==
    \A cell \in Cells :
        (cell \in Range(dirty_queue)) <=> (is_dirty[cell] = True)

\* C12 amended: between operations (after each mark_dirty and after each
\* pop-and-check step) every coordinate whose is_dirty flag is TRUE occurs in
\* dirty_queue; the converse does not hold.
C12_DirtyCellsAreQueued ==
    \A cell \in Cells :
        is_dirty[cell] = True => cell \in Range(dirty_queue)

\* cells are dirty and queued while the worklist also holds an entry of a
\* revealed 0 that its own check re-marked and then cleared
C12_Witness ==
    /\ pc = "process_queue"
    /\ \E cell \in Cells : is_dirty[cell] = True
    /\ \E i \in 1..Len(dirty_queue) :
          /\ is_dirty[dirty_queue[i]] = False
          /\ knowledge[dirty_queue[i]] = 0

\* C13: on the 5 x 5 grid without mines, once any one cell has been swept and
\* process_queue has returned, all 25 cells are Revealed(0) and none is
\* flagged; solve makes its single guess at the start and then ends Solved.
C13_ZeroGridSolvedByOneGuess ==
    /\ []((pc \in {"solve", "solved"} /\ sweep_calls > 0) =>
            /\ Cardinality(Cells) = 25
            /\ \A cell \in Cells : knowledge[cell] = 0)
    /\ [](Flagged = {} /\ pc \in {"solve", "process_queue", "solved"})
    /\ [][(pc = "solve" /\ pc' = "process_queue") => sweep_calls = 0]_vars
    /\ <>(pc = "solved")

\* solve has ended Solved on the 5 x 5 grid after the guess of a centre cell
\* led to the sweep of all 25 cells
C13_Witness ==
    /\ pc = "solved"
    /\ sweep_calls = 25
    /\ \A cell \in Cells : knowledge[cell] = 0

\* the loop of process_queue has ended, in the call that followed the sweep of
\* the guessed cell (0, 0)
DrainedAfterSweepOfOrigin ==
    /\ pc = "process_queue"
    /\ Len(dirty_queue) = 0
    /\ guess = <<0, 0>>

\* C14 as stated: on the 3 x 3 grid with its mine at (2, 2), after the sweep
\* of (0, 0) read 0, process_queue reveals all 8 neighbours of (0, 0).
C14_EightNeighboursRevealed ==
    DrainedAfterSweepOfOrigin =>
        /\ knowledge[<<0, 0>>] = 0
        /\ Len(neighbours(0, 0)) = 8
        /\ \A cell \in Neighbourhood(<<0, 0>>) : IsRevealed(cell)

\* C14 amended: on the 3 x 3 grid with its mine at (2, 2), after the sweep of
\* (0, 0) read 0, process_queue reveals all 3 in-bounds neighbours of (0, 0),
\* which are (1, 0), (0, 1) and (1, 1), and the reveal cascades from every cell
\* that reads 0: all neighbours of a revealed 0 are revealed, which leaves
\* every mine-free cell revealed.
C14_CornerNeighboursRevealed ==
    DrainedAfterSweepOfOrigin =>
        /\ knowledge[<<0, 0>>] = 0
        /\ Neighbourhood(<<0, 0>>) = {<<1, 0>>, <<0, 1>>, <<1, 1>>}
        /\ \A cell \in Neighbourhood(<<0, 0>>) : IsRevealed(cell)
        /\ \A cell \in Revealed :
              knowledge[cell] = 0 =>
                  \A other \in Neighbourhood(cell) : IsRevealed(other)
        /\ \A cell \in Cells \ mines : IsRevealed(cell)

\* (0, 0) was the first guess: the eight mine-free cells have been swept, seven
\* of them by the cascade, and the mine has been flagged
C14_Witness ==
    /\ DrainedAfterSweepOfOrigin
    /\ sweep_calls = 8
    /\ knowledge[<<1, 0>>] = 0
    /\ knowledge[<<1, 1>>] = 1
    /\ knowledge[<<2, 2>>] = CELL_FLAGGED

\* C15: the knowledge grid in which draining ends does not depend on the order
\* in which entries are taken: whichever entry is taken next at each step
\* (the last as the code does, the first, or any other), the loop ends without
\* an exception in the grid in which the code's loop ends from the same start.
C15_DrainOrderIndependent ==
    /\ pc \in {"solve", "process_queue", "solved", "lost"}
    /\ (pc = "process_queue" /\ Len(dirty_queue) = 0) => knowledge = lifo_knowledge

\* the sweep of (0, 0) revealed its three neighbours and (1, 1), which reads
\* 1, has been checked before the two that read 0: an order that is neither
\* that of the code nor FIFO; the loop of the code would end with more known
C15_Witness ==
    /\ pc = "process_queue"
    /\ guess = <<0, 0>>
    /\ sweep_calls = 4
    /\ knowledge[<<1, 1>>] = 1 /\ is_dirty[<<1, 1>>] = False
    /\ is_dirty[<<1, 0>>] = True
    /\ is_dirty[<<0, 1>>] = True
    /\ knowledge # lifo_knowledge

\* hidden_mines of check_cell for a revealed cell: n - flagged neighbours
HiddenMines(cell) == knowledge[cell] - FlaggedAround(cell)

\* what C16 says of check_cell applied to the dirty cell, with the solver
\* record it returns
CheckCellContract(cell, after) ==
    LET h == HiddenMines(cell)
        u == UnknownAround(cell)
        hidden == Neighbourhood(cell) \cap Unknown
    IN  /\ after.status = "ok"
        /\ after.is_dirty[cell] = False
        /\ \A other \in Cells \ Neighbourhood(cell) :
              after.knowledge[other] = knowledge[other]
        /\ (IsRevealed(cell) /\ h = 0) =>
              /\ \A other \in hidden :
                    0 <= after.knowledge[other] /\ after.knowledge[other] <= 8
              /\ \A other \in Cells :
                    after.knowledge[other] = CELL_FLAGGED
                        => knowledge[other] = CELL_FLAGGED
              /\ after.sweep_calls = sweep_calls + u
              /\ u = 0 => after.knowledge = knowledge
        /\ (IsRevealed(cell) /\ h = u /\ u > 0) =>
              /\ \A other \in hidden : after.knowledge[other] = CELL_FLAGGED
              /\ \A other \in Cells \ hidden :
                    after.knowledge[other] = knowledge[other]
              /\ after.sweep_calls = sweep_calls
        /\ (IsRevealed(cell) /\ 0 < h /\ h < u) =>
              /\ after.knowledge = knowledge
              /\ after.dirty_queue = dirty_queue
        /\ ~IsRevealed(cell) => after.knowledge = knowledge

MarkedBySweepsAndFlags ==
    {<<cell, other>> : cell \in Cells \ Unknown, other \in Cells} \cap
    {pair \in Cells \X Cells : pair[2] = pair[1] \/ pair[2] \in Neighbourhood(pair[1])}

\* C17: the number of entries ever appended to the worklist is exactly the sum,
\* over the cells swept or flagged so far, of 1 + the number of in-bounds
\* neighbours of the cell (at most 9 each); so it is at most 9 times the number
\* of non-Hidden cells, and at most 9 * width * height.
C17_AppendsLinearInGrid ==
    /\ appends = Cardinality(MarkedBySweepsAndFlags)
    /\ \A cell \in Cells : 1 + Cardinality(Neighbourhood(cell)) <= 9
    /\ appends <= 9 * Cardinality(Cells \ Unknown)
    /\ appends <= 9 * width * height
    /\ Len(dirty_queue) <= appends

\* a solve has ended with every cell swept or flagged, and the worklist has
\* received more entries than the grid has cells
C17_Witness ==
    /\ pc = "solved"
    /\ Unknown = {}
    /\ appends > width * height
    /\ appends = Cardinality(MarkedBySweepsAndFlags)

\* C18: with a mine field that reports true counts, no assertion of the solver
\* fails during solve (sweep_unknown_cell and flag_unknown_cell are only called
\* on in-bounds unknown cells, and the invalid-state branch of check_cell is
\* never taken), and every revealed cell n has
\* 0 <= n - flagged neighbours <= unknown neighbours.
C18_NoContractViolation ==
    /\ pc # "assert_failed"
    /\ \A cell \in Revealed :
          0 <= HiddenMines(cell) /\ HiddenMines(cell) <= UnknownAround(cell)

\* a revealed cell at each end of the range: one whose unknown neighbours are
\* all mines and one without unknown neighbours, after deductions have swept
\* cells
C18_Witness ==
    /\ pc = "process_queue"
    /\ \E cell \in Revealed :
          HiddenMines(cell) = UnknownAround(cell) /\ UnknownAround(cell) > 0
    /\ \E cell \in Revealed :
          HiddenMines(cell) = 0 /\ UnknownAround(cell) = 0
    /\ sweep_calls > 1

\* the number of mines among the in-bounds neighbours of a cell
MinesAround(cell) == Cardinality(Neighbourhood(cell) \cap mines)

\* C19: when solve ends Solved the knowledge grid is the ground truth: the
\* flagged cells are exactly the mines (as many as number_of_mines) and every
\* other cell is revealed with the number of mines around it.
C19_SolvedIsGroundTruth ==
    pc = "solved" =>
        /\ Flagged = mines
        /\ Cardinality(Flagged) = number_of_mines
        /\ \A cell \in Cells \ mines : knowledge[cell] = MinesAround(cell)

\* a solve has ended Solved after sweeping every mine-free cell, with the
\* mine flagged and revealed cells of different counts
C19_Witness ==
    /\ pc = "solved"
    /\ sweep_calls = width * height - number_of_mines
    /\ \E cell \in Cells : knowledge[cell] = CELL_FLAGGED /\ cell \in mines
    /\ \E cell \in Cells : knowledge[cell] = 0
    /\ \E cell \in Cells : knowledge[cell] = 1 /\ MinesAround(cell) = 1

\* the number of entries of a cell in the worklist
Entries(cell) == Cardinality({i \in 1..Len(dirty_queue) : dirty_queue[i] = cell})

\* C20: no dirty mark is lost.  After every mark_dirty call of a client and
\* after every completed pop-and-check of process_queue, each cell whose flag
\* is TRUE has at least one entry in the worklist; an entry whose flag is FALSE
\* may stay in the worklist, and popping it removes that entry and changes
\* nothing else.
C20_NoDirtyMarkLost ==
    /\ [](\A cell \in Cells : is_dirty[cell] = True => Entries(cell) >= 1)
    /\ [][(/\ pc = "process_queue"
           /\ Len(dirty_queue) > 0
           /\ is_dirty[NextPopped] = False)
          => /\ dirty_queue' = SubSeq(dirty_queue, 1, Len(dirty_queue) - 1)
             /\ UNCHANGED <<knowledge, is_dirty, sweep_calls, appends, pc>>]_vars

\* a client has marked a cell; the worklist holds two entries of a dirty cell
\* and, about to be popped, an entry of a cell whose flag is FALSE
C20_Witness ==
    /\ pc = "process_queue"
    /\ marks > 0
    /\ \E cell \in Cells : is_dirty[cell] = True /\ Entries(cell) >= 2
    /\ Len(dirty_queue) > 0
    /\ is_dirty[dirty_queue[Len(dirty_queue)]] = False

====
